---- MODULE Spec2Model ----
(***************************************************************************)
(* Edit session controller of the image editor (src/App.tsx).              *)
(*                                                                         *)
(* The React component App is a state machine: its useState slots are the  *)
(* variables, every event handler is one atomic action (the browser runs   *)
(* one handler to completion before the next event), and an `await` or an  *)
(* image `onload` splits a handler in two actions joined by an entry of    *)
(* `pending`.  A handler created by useCallback reads the state of the     *)
(* render in which it was created; the continuation after an `await` keeps *)
(* reading that render's values, so a pending entry carries the history    *)
(* and historyIndex that addImageToHistory closed over when the request    *)
(* was started.                                                            *)
(***************************************************************************)
EXTENDS Integers, Sequences, FiniteSets, Bags, TLC

\* ---------------------------------------------------------------- bounds
MaxSnaps == 3
MaxPending == 2
MaxProps == 1

\* ------------------------------------------------------------ value sets
None == <<>>
Some(v) == <<v>>

NoFile == 0
NoError == "null"

Tabs == {"retouch", "crop", "manual", "adjust", "filters", "restore"}

Prompts == {"", "add a cat"}

Hotspots == {[x |-> 500, y |-> 0]}

\* where in the container the pointer was for that hotspot
Marker == [x |-> 200, y |-> 100]

CropRects ==
  { [x |-> 10, y |-> 10, width |-> 100, height |-> 50],
    [x |-> 10, y |-> 10, width |-> 100, height |-> 0] }

AdjustmentKeys ==
  { "temperature", "tint", "exposure", "contrast", "highlights", "shadows",
    "whites", "blacks", "clarity", "vibrance", "saturation" }

defaultAdjustments == [k \in AdjustmentKeys |-> 0]

SliderKeys == {"exposure"}
SliderValues == {0, 50}

\* A data URL as dataURLtoFile sees it: whether it has a comma, whether the
\* part before the comma matches /:(.*?);/ with a non-empty group, and
\* whether the part after the comma is valid base64 for atob.
DataURLs == [comma : BOOLEAN, mime : BOOLEAN, base64 : BOOLEAN]

WellFormedURL == [comma |-> TRUE, mime |-> TRUE, base64 |-> TRUE]
\* canvas.toDataURL of a canvas with no pixels is the string "data:,"
EmptyCanvasURL == [comma |-> TRUE, mime |-> FALSE, base64 |-> TRUE]

\* What the collaborator hands back: a data URL, or a thrown value.
Thrown ==
  { [isError |-> TRUE, message |-> "service unavailable"],
    [isError |-> FALSE, message |-> ""] }

\* the data URLs the collaborator is taken to answer with
CollaboratorURLs == {WellFormedURL, [comma |-> FALSE, mime |-> FALSE, base64 |-> TRUE]}

RequestKinds == {"generate", "filter", "adjust"}

\* The pixel surfaces are followed at the sample points Pixels; a pixel is a
\* colour sample c with its alpha a, both 8 bit as a canvas stores them.
Pixels == {1, 2}

NoPaint == [c |-> 0, a |-> 0]

Opaque(c) == [c |-> c, a |-> 255]

\* the images a user is taken to upload: an opaque one, and one with a
\* transparent region (a PNG with an alpha channel)
UploadImages ==
  { [w |-> 1000, h |-> 500, px |-> [p \in Pixels |-> Opaque(200)]],
    [w |-> 1000, h |-> 500,
     px |-> [p \in Pixels |-> IF p = 1 THEN Opaque(200) ELSE NoPaint]] }

\* the image the collaborator is taken to answer with
ResultImages == { [w |-> 800, h |-> 400, px |-> [p \in Pixels |-> Opaque(40)]] }

\* the crop tool: the image uploaded, the rectangles dragged, and how much
\* smaller than its natural size the crop image is displayed
CropUploadImages == { [w |-> 1000, h |-> 1000, px |-> [p \in Pixels |-> Opaque(200)]] }

CropDrags == CropRects \cup { [x |-> 10, y |-> 10, width |-> 0, height |-> 50] }

DisplayDivisors == {1, 2}

\* the coordinate mapper: the size of the image element and the pointer
\* positions inside it
ClientBoxes == { [w |-> 400, h |-> 400], [w |-> 400, h |-> 100] }

PointerXs == {0, 100, 199, 200, 400}

PointerYs == {0, 50, 100, 101, 300, 400}

\* a canvas element as created: 300 x 150, transparent black
BlankCanvas ==
  [w |-> 300, h |-> 150, mask |-> [p \in Pixels |-> 0],
   shown |-> [p \in Pixels |-> NoPaint]]

\* where the pointer is over the restore container: on a sample point of the
\* canvas, or (0) beside the canvas
Positions == {0} \cup Pixels

\* RestorePanel opacity slider: min 10, max 100
BrushOpacities == {50, 100}

\* ----------------------------------------------------------------- state
VARIABLES
  history, historyIndex, prompt, isLoading, error, editHotspot,
  displayHotspot, activeTab, crop, completedCrop, propImages, adjustments,
  pending, nextId, undoRedo,
  images, canvas, imageObjects, sessionLoad, isPainting, lastPoint,
  brushOpacity, cropDraw, objectURLs, pointer

progVars ==
  << history, historyIndex, prompt, isLoading, error, editHotspot,
     displayHotspot, activeTab, crop, completedCrop, propImages, adjustments >>

\* pointer is where the last mouse event over the restore container was
\* (e.clientX, e.clientY), as one of Positions
\* the pixel surfaces: the image held by each File, the restore canvases and
\* the refs and slots of the restore tool, the last crop extraction
surfaceVars ==
  << images, canvas, imageObjects, sessionLoad, isPainting, lastPoint,
     brushOpacity, cropDraw, pointer >>

\* with the number of live object URLs that handlers created
toolVars == << surfaceVars, objectURLs >>

vars == << progVars, pending, nextId, undoRedo, toolVars >>

\* ------------------------------------------------------- derived values
currentImage ==
  IF historyIndex >= 0 /\ historyIndex < Len(history)
    THEN history[historyIndex + 1] ELSE NoFile

originalImage == IF Len(history) > 0 THEN history[1] ELSE NoFile

canUndo == historyIndex > 0

canRedo == historyIndex < Len(history) - 1

Min(a, b) == IF a < b THEN a ELSE b

\* Array.prototype.slice(0, end) for end >= 0
Slice(s, end) == SubSeq(s, 1, Min(end, Len(s)))

Trim(p) == IF p \in {" ", "  "} THEN "" ELSE p

\* variant: a thrown value that is not an Error leaves no message
ErrorMessageOnlyOfErrors(err) ==
  IF err.isError THEN err.message ELSE NoError

ErrorMessage(err) ==
  IF err.isError THEN err.message ELSE "An unknown error occurred."

\* dataURLtoFile: the thrown message, or NoError when a File is built
DataURLtoFileError(url) ==
  IF ~url.comma THEN "Invalid data URL"
  ELSE IF ~url.mime THEN "Could not parse MIME type from data URL"
  ELSE IF ~url.base64 THEN "InvalidCharacterError"
  ELSE NoError

CanvasToDataURL(w, h) == IF w > 0 /\ h > 0 THEN WellFormedURL ELSE EmptyCanvasURL

\* undoRedo is a history variable: <<k>> right after handleUndo ran at cursor
\* k, <<k, "redo">> when handleRedo ran next, and None after any other step
NotUndo == undoRedo' = None

\* the pending entries of the given kinds, with their multiplicity
PendingOf(kinds) ==
  LET reqs == {r \in BagToSet(pending) : r.kind \in kinds}
      Sum[S \in SUBSET reqs] ==
        IF S = {} THEN 0
        ELSE LET r == CHOOSE r \in S : TRUE IN CopiesIn(r, pending) + Sum[S \ {r}]
  IN Sum[reqs]

Outstanding == PendingOf(RequestKinds)

\* what the continuation of a handler started now reads from its closure;
\* only handleApplyManualAdjustment reads adjustments
Request(kind) ==
  [kind |-> kind, history |-> history, historyIndex |-> historyIndex,
   adjustments |-> IF kind = "manual" THEN adjustments ELSE defaultAdjustments]

\* ------------------------------------------------------------------ Init
Init ==
  /\ history = <<>>
  /\ historyIndex = -1
  /\ prompt = ""
  /\ isLoading = FALSE
  /\ error = NoError
  /\ editHotspot = None
  /\ displayHotspot = None
  /\ activeTab = "retouch"
  /\ crop = None
  /\ completedCrop = None
  /\ propImages = 0
  /\ adjustments = defaultAdjustments
  /\ pending = EmptyBag
  /\ nextId = 1
  /\ undoRedo = None
  /\ images = <<>>
  /\ canvas = None
  /\ imageObjects = None
  /\ sessionLoad = None
  /\ isPainting = FALSE
  /\ lastPoint = None
  /\ pointer = 0
  /\ brushOpacity = 100
  /\ cropDraw = None
  /\ objectURLs = 0

\* --------------------------------------------------------------- actions
\* variant: pushes without truncating and steps the cursor by one
AddImageToHistoryNoTruncate(h, i, newImageFile) ==
  /\ history' = Append(h, newImageFile)
  /\ historyIndex' = i + 1
  /\ crop' = None
  /\ completedCrop' = None
  /\ adjustments' = defaultAdjustments

\* addImageToHistory as created in a render whose state was (h, i)
AddImageToHistory(h, i, newImageFile) ==
  LET newHistory == Append(Slice(h, i + 1), newImageFile) IN
  /\ history' = newHistory
  /\ historyIndex' = Len(newHistory) - 1
  /\ crop' = None
  /\ completedCrop' = None
  /\ adjustments' = defaultAdjustments

HandleClearAllPropImages == propImages' = 0

\* variant: leaves the tool mode as it was
HandleImageUploadKeepsTab ==
  /\ nextId <= MaxSnaps
  /\ HandleClearAllPropImages
  /\ error' = NoError
  /\ history' = << nextId >>
  /\ historyIndex' = 0
  /\ editHotspot' = None
  /\ displayHotspot' = None
  /\ crop' = None
  /\ completedCrop' = None
  /\ nextId' = nextId + 1
  /\ NotUndo
  /\ UNCHANGED << prompt, isLoading, adjustments, pending, activeTab >>

HandleImageUpload ==
  /\ nextId <= MaxSnaps
  /\ HandleClearAllPropImages
  /\ error' = NoError
  /\ history' = << nextId >>
  /\ historyIndex' = 0
  /\ editHotspot' = None
  /\ displayHotspot' = None
  /\ activeTab' = "retouch"
  /\ crop' = None
  /\ completedCrop' = None
  /\ nextId' = nextId + 1
  /\ NotUndo
  /\ UNCHANGED << prompt, isLoading, adjustments, pending >>

\* variant: canUndo taken as historyIndex >= 0
HandleUndoOffByOne ==
  /\ IF historyIndex >= 0 THEN historyIndex' = historyIndex - 1 ELSE UNCHANGED historyIndex
  /\ undoRedo' = << historyIndex >>
  /\ UNCHANGED << history, prompt, isLoading, error, editHotspot, displayHotspot,
                  activeTab, crop, completedCrop, propImages, adjustments,
                  pending, nextId >>

HandleUndo ==
  /\ IF canUndo THEN historyIndex' = historyIndex - 1 ELSE UNCHANGED historyIndex
  /\ undoRedo' = << historyIndex >>
  /\ UNCHANGED << history, prompt, isLoading, error, editHotspot, displayHotspot,
                  activeTab, crop, completedCrop, propImages, adjustments,
                  pending, nextId >>

\* variant: redo jumps to the newest snapshot
HandleRedoToEnd ==
  /\ IF canRedo THEN historyIndex' = Len(history) - 1 ELSE UNCHANGED historyIndex
  /\ undoRedo' = IF Len(undoRedo) = 1 THEN << undoRedo[1], "redo" >> ELSE None
  /\ UNCHANGED << history, prompt, isLoading, error, editHotspot, displayHotspot,
                  activeTab, crop, completedCrop, propImages, adjustments,
                  pending, nextId >>

HandleRedo ==
  /\ IF canRedo THEN historyIndex' = historyIndex + 1 ELSE UNCHANGED historyIndex
  /\ undoRedo' = IF Len(undoRedo) = 1 THEN << undoRedo[1], "redo" >> ELSE None
  /\ UNCHANGED << history, prompt, isLoading, error, editHotspot, displayHotspot,
                  activeTab, crop, completedCrop, propImages, adjustments,
                  pending, nextId >>

\* variant: reset also drops the snapshots after the original
HandleResetDropsLater ==
  /\ IF Len(history) > 0
       THEN historyIndex' = 0 /\ history' = << history[1] >>
       ELSE UNCHANGED << history, historyIndex >>
  /\ NotUndo
  /\ UNCHANGED << prompt, isLoading, error, editHotspot, displayHotspot,
                  activeTab, crop, completedCrop, propImages, adjustments,
                  pending, nextId >>

HandleReset ==
  /\ IF Len(history) > 0 THEN historyIndex' = 0 ELSE UNCHANGED historyIndex
  /\ NotUndo
  /\ UNCHANGED << history, prompt, isLoading, error, editHotspot, displayHotspot,
                  activeTab, crop, completedCrop, propImages, adjustments,
                  pending, nextId >>

\* variant: empties the history but leaves the cursor
HandleUploadNewKeepsCursor ==
  /\ HandleClearAllPropImages
  /\ history' = <<>>
  /\ error' = NoError
  /\ prompt' = ""
  /\ NotUndo
  /\ UNCHANGED << historyIndex, isLoading, editHotspot, displayHotspot, activeTab,
                  crop, completedCrop, adjustments, pending, nextId >>

HandleUploadNew ==
  /\ HandleClearAllPropImages
  /\ history' = <<>>
  /\ historyIndex' = -1
  /\ error' = NoError
  /\ prompt' = ""
  /\ NotUndo
  /\ UNCHANGED << isLoading, editHotspot, displayHotspot, activeTab, crop,
                  completedCrop, adjustments, pending, nextId >>

\* the crop image or the current image carries imgRef; in restore mode, and
\* while the error panel or the start screen is shown, no image is mounted
ImgMounted == error = NoError /\ currentImage # NoFile /\ activeTab # "restore"

ContainerMounted == error = NoError /\ currentImage # NoFile

\* displayCanvasRef.current is set while restoreCanvasElement is rendered
CanvasMounted == error = NoError /\ currentImage # NoFile /\ activeTab = "restore"

StartRequest(kind) ==
  /\ BagCardinality(pending) < MaxPending
  /\ pending' = pending (+) SetToBag({Request(kind)})

HandleGenerate ==
  /\ currentImage # NoFile
  /\ Trim(prompt) # "" /\ editHotspot # None
  /\ isLoading' = TRUE
  /\ error' = NoError
  /\ StartRequest("generate")
  /\ NotUndo
  /\ UNCHANGED << history, historyIndex, prompt, editHotspot, displayHotspot,
                  activeTab, crop, completedCrop, propImages, adjustments, nextId >>

HandleApplyFilter ==
  /\ currentImage # NoFile
  /\ isLoading' = TRUE
  /\ error' = NoError
  /\ StartRequest("filter")
  /\ NotUndo
  /\ UNCHANGED << history, historyIndex, prompt, editHotspot, displayHotspot,
                  activeTab, crop, completedCrop, propImages, adjustments, nextId >>

HandleApplyAdjustment ==
  /\ currentImage # NoFile
  /\ isLoading' = TRUE
  /\ error' = NoError
  /\ StartRequest("adjust")
  /\ NotUndo
  /\ UNCHANGED << history, historyIndex, prompt, editHotspot, displayHotspot,
                  activeTab, crop, completedCrop, propImages, adjustments, nextId >>

\* variant: the success path leaves the hotspot and its marker in place
RequestTryKeepsHotspot(req, url) ==
  IF DataURLtoFileError(url) = NoError
    THEN /\ nextId <= MaxSnaps
         /\ AddImageToHistory(req.history, req.historyIndex, nextId)
         /\ nextId' = nextId + 1
         /\ IF req.kind = "generate"
              THEN HandleClearAllPropImages
              ELSE UNCHANGED propImages
         /\ UNCHANGED << error, editHotspot, displayHotspot >>
         /\ NotUndo
    ELSE /\ error' = ErrorMessage([isError |-> TRUE, message |-> DataURLtoFileError(url)])
         /\ NotUndo
         /\ UNCHANGED << history, historyIndex, crop, completedCrop, adjustments,
                         editHotspot, displayHotspot, propImages, nextId >>

\* the try block after the await, when the collaborator returned `url`
RequestTry(req, url) ==
  IF DataURLtoFileError(url) = NoError
    THEN /\ nextId <= MaxSnaps
         /\ AddImageToHistory(req.history, req.historyIndex, nextId)
         /\ nextId' = nextId + 1
         /\ IF req.kind = "generate"
              THEN /\ editHotspot' = None
                   /\ displayHotspot' = None
                   /\ HandleClearAllPropImages
              ELSE UNCHANGED << editHotspot, displayHotspot, propImages >>
         /\ UNCHANGED error
         /\ NotUndo
    ELSE /\ error' = ErrorMessage([isError |-> TRUE, message |-> DataURLtoFileError(url)])
         /\ NotUndo
         /\ UNCHANGED << history, historyIndex, crop, completedCrop, adjustments,
                         editHotspot, displayHotspot, propImages, nextId >>

\* variant: the failure path clears the hotspot like the success path
RequestCatchClearsHotspot(thrown) ==
  /\ error' = ErrorMessage(thrown)
  /\ editHotspot' = None
  /\ displayHotspot' = None
  /\ NotUndo
  /\ UNCHANGED << history, historyIndex, crop, completedCrop, adjustments,
                  propImages, nextId >>

\* the catch block, when the collaborator threw `thrown`
RequestCatch(thrown) ==
  /\ error' = ErrorMessage(thrown)
  /\ NotUndo
  /\ UNCHANGED << history, historyIndex, crop, completedCrop, adjustments,
                  editHotspot, displayHotspot, propImages, nextId >>

\* variant: without the finally block
RequestSettledKeepsBusy ==
  \E req \in BagToSet(pending) :
    /\ req.kind \in RequestKinds
    /\ \/ \E url \in CollaboratorURLs : RequestTry(req, url)
       \/ \E thrown \in Thrown : RequestCatch(thrown)
    /\ pending' = pending (-) SetToBag({req})
    /\ UNCHANGED << prompt, activeTab, isLoading >>

\* the continuation of handleGenerate / handleApplyFilter / handleApplyAdjustment
RequestSettled ==
  \E req \in BagToSet(pending) :
    /\ req.kind \in RequestKinds
    /\ \/ \E url \in CollaboratorURLs : RequestTry(req, url)
       \/ \E thrown \in Thrown : RequestCatch(thrown)
    /\ isLoading' = FALSE
    /\ pending' = pending (-) SetToBag({req})
    /\ UNCHANGED << prompt, activeTab >>

HandleApplyManualAdjustment ==
  /\ currentImage # NoFile
  /\ StartRequest("manual")
  /\ NotUndo
  /\ UNCHANGED << progVars, nextId >>

\* image.onload of handleApplyManualAdjustment
ManualImageLoaded ==
  \E req \in BagToSet(pending) :
    /\ req.kind = "manual"
    /\ nextId <= MaxSnaps
    /\ DataURLtoFileError(CanvasToDataURL(1, 1)) = NoError
    /\ AddImageToHistory(req.history, req.historyIndex, nextId)
    /\ nextId' = nextId + 1
    /\ pending' = pending (-) SetToBag({req})
    /\ NotUndo
    /\ UNCHANGED << prompt, isLoading, error, editHotspot, displayHotspot,
                    activeTab, propImages >>

HandleApplyCrop ==
  /\ completedCrop # None /\ ImgMounted
  /\ LET rect == completedCrop[1]
         url == CanvasToDataURL(rect.width, rect.height) IN
     IF DataURLtoFileError(url) = NoError
       THEN /\ nextId <= MaxSnaps
            /\ AddImageToHistory(history, historyIndex, nextId)
            /\ nextId' = nextId + 1
       ELSE \* dataURLtoFile throws out of the handler
            UNCHANGED << history, historyIndex, crop, completedCrop, adjustments,
                         nextId >>
  /\ NotUndo
  /\ UNCHANGED << prompt, isLoading, error, editHotspot, displayHotspot,
                  activeTab, propImages, pending >>

HandleApplyRestore ==
  /\ IF ~CanvasMounted
       THEN /\ error' = "Canvas not ready for applying restoration."
            /\ UNCHANGED << history, historyIndex, crop, completedCrop,
                            adjustments, activeTab, nextId >>
       ELSE /\ nextId <= MaxSnaps
            /\ DataURLtoFileError(CanvasToDataURL(1, 1)) = NoError
            /\ AddImageToHistory(history, historyIndex, nextId)
            /\ nextId' = nextId + 1
            /\ activeTab' = "retouch"
            /\ UNCHANGED error
  /\ NotUndo
  /\ UNCHANGED << prompt, isLoading, editHotspot, displayHotspot, propImages,
                  pending >>

\* variant: the restore tab is never disabled
SetActiveTabAlwaysEnabled(tab) ==
  /\ activeTab' = tab
  /\ NotUndo
  /\ UNCHANGED << history, historyIndex, prompt, isLoading, error, editHotspot,
                  displayHotspot, crop, completedCrop, propImages, adjustments,
                  pending, nextId >>

\* tab buttons: onClick={() => setActiveTab(tab)}, disabled for restore
SetActiveTab(tab) ==
  /\ ~(tab = "restore" /\ ~canUndo)
  /\ activeTab' = tab
  /\ NotUndo
  /\ UNCHANGED << history, historyIndex, prompt, isLoading, error, editHotspot,
                  displayHotspot, crop, completedCrop, propImages, adjustments,
                  pending, nextId >>

\* prompt input: onChange, disabled={isLoading || !editHotspot}
SetPrompt(p) ==
  /\ ~(isLoading \/ editHotspot = None)
  /\ prompt' = p
  /\ NotUndo
  /\ UNCHANGED << history, historyIndex, isLoading, error, editHotspot,
                  displayHotspot, activeTab, crop, completedCrop, propImages,
                  adjustments, pending, nextId >>

\* the error panel's Try Again button
DismissError ==
  /\ error # NoError
  /\ error' = NoError
  /\ NotUndo
  /\ UNCHANGED << history, historyIndex, prompt, isLoading, editHotspot,
                  displayHotspot, activeTab, crop, completedCrop, propImages,
                  adjustments, pending, nextId >>

\* handleImageClick once the pointer is located: outside the rendered image,
\* or at `display` in the container and `spot` in natural pixels
HandleImageClick(inside, display, spot) ==
  /\ activeTab = "retouch" /\ ContainerMounted
  /\ IF ~inside
       THEN editHotspot' = None /\ displayHotspot' = None
       ELSE displayHotspot' = Some(display) /\ editHotspot' = Some(spot)
  /\ NotUndo
  /\ UNCHANGED << history, historyIndex, prompt, isLoading, error, activeTab,
                  crop, completedCrop, propImages, adjustments, pending, nextId >>

\* ReactCrop onChange / onComplete at the end of a drag
CropCompleted(rect) ==
  /\ activeTab = "crop" /\ ContainerMounted
  /\ crop' = Some(rect)
  /\ completedCrop' = Some(rect)
  /\ NotUndo
  /\ UNCHANGED << history, historyIndex, prompt, isLoading, error, editHotspot,
                  displayHotspot, activeTab, propImages, adjustments, pending,
                  nextId >>

HandlePropImageSelect(n) ==
  /\ n > 0 /\ propImages + n <= MaxProps
  /\ propImages' = propImages + n
  /\ NotUndo
  /\ UNCHANGED << history, historyIndex, prompt, isLoading, error, editHotspot,
                  displayHotspot, activeTab, crop, completedCrop, adjustments,
                  pending, nextId >>

HandleRemovePropImage ==
  /\ propImages > 0
  /\ propImages' = propImages - 1
  /\ NotUndo
  /\ UNCHANGED << history, historyIndex, prompt, isLoading, error, editHotspot,
                  displayHotspot, activeTab, crop, completedCrop, adjustments,
                  pending, nextId >>

\* ManualAdjustmentPanel handleSliderChange -> onAdjustmentChange
HandleSliderChange(key, value) ==
  /\ adjustments' = [adjustments EXCEPT ![key] = value]
  /\ NotUndo
  /\ UNCHANGED << history, historyIndex, prompt, isLoading, error, editHotspot,
                  displayHotspot, activeTab, crop, completedCrop, propImages,
                  pending, nextId >>

\* ------------------------------------------------ what the page offers
\* renderContent: the error panel replaces everything; without an image the
\* start screen is shown; otherwise the editor with its controls
StartScreenShown == error = NoError /\ currentImage = NoFile

EditorShown == error = NoError /\ currentImage # NoFile

\* CropPanel isCropping={!!completedCrop?.width && completedCrop.width > 0}
isCropping == completedCrop # None /\ completedCrop[1].width > 0

\* ManualAdjustmentPanel
hasChanges == adjustments # defaultAdjustments

EnabledSliders == {"temperature", "tint", "exposure", "contrast", "saturation"}

\* the panels whose code is not part of the sources receive isLoading and
\* disable their controls while it is set
FilterPanelEnabled == ~isLoading

AdjustmentPanelEnabled == ~isLoading

CropPanelEnabled == ~isLoading /\ isCropping

SelectFile == StartScreenShown /\ HandleImageUpload

ClickUndo == EditorShown /\ canUndo /\ HandleUndo

ClickRedo == EditorShown /\ canRedo /\ HandleRedo

ClickReset == EditorShown /\ canUndo /\ HandleReset

ClickUploadNew == EditorShown /\ HandleUploadNew

ClickTab(tab) == EditorShown /\ SetActiveTab(tab)

SubmitGenerate ==
  /\ EditorShown /\ activeTab = "retouch"
  /\ ~(isLoading \/ Trim(prompt) = "" \/ editHotspot = None)
  /\ HandleGenerate

TypePrompt(p) == EditorShown /\ activeTab = "retouch" /\ SetPrompt(p)

\* the spinner overlay covers the image container while isLoading
ClickImage(inside, display, spot) ==
  /\ EditorShown /\ activeTab \notin {"crop", "restore"} /\ ~isLoading
  /\ HandleImageClick(inside, display, spot)

DragCrop(rect) == ~isLoading /\ CropCompleted(rect)

ClickApplyCrop ==
  EditorShown /\ activeTab = "crop" /\ CropPanelEnabled /\ HandleApplyCrop

\* variant: every slider takes input
MoveSliderAnyKey(key, value) ==
  /\ EditorShown /\ activeTab = "manual" /\ ~isLoading
  /\ HandleSliderChange(key, value)

MoveSlider(key, value) ==
  /\ EditorShown /\ activeTab = "manual" /\ ~isLoading
  /\ key \in EnabledSliders
  /\ HandleSliderChange(key, value)

\* handleResetSlider: double click on a slider's label, which is not disabled
ResetSlider(key) ==
  /\ EditorShown /\ activeTab = "manual"
  /\ HandleSliderChange(key, defaultAdjustments[key])

\* the panel's Reset button: onReset = setAdjustments(defaultAdjustments)
ResetAllSliders ==
  /\ EditorShown /\ activeTab = "manual" /\ ~isLoading /\ hasChanges
  /\ adjustments' = defaultAdjustments
  /\ NotUndo
  /\ UNCHANGED << history, historyIndex, prompt, isLoading, error, editHotspot,
                  displayHotspot, activeTab, crop, completedCrop, propImages,
                  pending, nextId >>

ClickApplyManual ==
  /\ EditorShown /\ activeTab = "manual" /\ ~isLoading /\ hasChanges
  /\ HandleApplyManualAdjustment

ClickApplyFilter ==
  EditorShown /\ activeTab = "filters" /\ FilterPanelEnabled /\ HandleApplyFilter

ClickApplyAdjustment ==
  EditorShown /\ activeTab = "adjust" /\ AdjustmentPanelEnabled /\ HandleApplyAdjustment

ClickApplyRestore ==
  /\ EditorShown /\ activeTab = "restore" /\ canUndo /\ ~isLoading
  /\ HandleApplyRestore

PropControlsShown ==
  EditorShown /\ activeTab = "retouch" /\ editHotspot # None /\ ~isLoading

AddPropImages(n) == PropControlsShown /\ HandlePropImageSelect(n)

ClickRemoveProp == PropControlsShown /\ HandleRemovePropImage

\* handleDownload: the handle made for the link is revoked after the click
HandleDownload ==
  /\ IF currentImage # NoFile
       THEN objectURLs' = (objectURLs + 1) - 1
       ELSE UNCHANGED objectURLs
  /\ NotUndo
  /\ UNCHANGED << progVars, pending, nextId >>

ClickDownload == EditorShown /\ HandleDownload

\* image.src = URL.createObjectURL(currentImage) in
\* handleApplyManualAdjustment: no revokeObjectURL follows, in the handler
\* or in onload
ManualCreatesObjectURL == objectURLs' = objectURLs + 1

\* ------------------------------------------------------ the restore tool
\* 8-bit canvas arithmetic, rounding to nearest
RoundDiv(n, d) == (2 * n + d) \div (2 * d)

Div255(x) == RoundDiv(x, 255)

\* strokeStyle = rgba(255, 255, 255, brushOpacity / 100)
StrokeAlpha(opacity) == RoundDiv(255 * opacity, 100)

\* globalCompositeOperation 'source-over' on the alpha channel
OverAlpha(sa, da) == sa + Div255(da * (255 - sa))

\* 'source-over': pixel s drawn over pixel d
SourceOver(s, d) ==
  LET ao == OverAlpha(s.a, d.a) IN
  IF ao = 0 THEN NoPaint
  ELSE [c |-> RoundDiv(s.c * s.a * 255 + d.c * d.a * (255 - s.a), 255 * ao),
        a |-> ao]

\* 'destination-in': pixel d kept where the source has alpha sa
DestinationIn(d, sa) ==
  LET a == Div255(d.a * sa) IN IF a = 0 THEN NoPaint ELSE [c |-> d.c, a |-> a]

\* the sample points a round-capped segment from start to end covers
Covered(start, end) ==
  {p \in Pixels : Min(start, end) <= p /\ p <= IF start < end THEN end ELSE start}

\* redrawComposite on canvas cv (whose mask is already painted)
RedrawComposite(cv) ==
  IF imageObjects = None THEN cv
  ELSE LET current == images[imageObjects[1].current].px
           previous == images[imageObjects[1].previous].px
       IN [cv EXCEPT !.shown =
             [p \in Pixels |->
                SourceOver(DestinationIn(previous[p], cv.mask[p]), current[p])]]

\* variant: the stroke replaces the mask alpha instead of compositing over it
DrawOnMaskCopy(cv, start, end) ==
  RedrawComposite(
    [cv EXCEPT !.mask =
       [p \in Pixels |->
          IF p \in Covered(start, end)
            THEN StrokeAlpha(brushOpacity)
            ELSE cv.mask[p]]])

\* drawOnMask on canvas cv
DrawOnMask(cv, start, end) ==
  RedrawComposite(
    [cv EXCEPT !.mask =
       [p \in Pixels |->
          IF p \in Covered(start, end)
            THEN OverAlpha(StrokeAlpha(brushOpacity), cv.mask[p])
            ELSE cv.mask[p]]])

\* the dependencies of the restore session effect
RestoreDeps == << activeTab, currentImage, originalImage, canUndo >>

\* the effect's guard, read in the commit that follows the handler: the
\* canvases are in that commit when the editor was already rendered with an
\* image (currentImageUrl is set one render after currentImage)
RestoreGuard ==
  /\ activeTab' = "restore" /\ canUndo'
  /\ currentImage' # NoFile /\ originalImage' # NoFile
  /\ error' = NoError /\ currentImage # NoFile

\* What React does after a handler that does not draw: canvases that stay
\* rendered keep their pixels, canvases rendered anew are blank; when a
\* dependency changed the effect's cleanup cancels the pending load and the
\* effect starts a new one if its guard passes; a pending load whose
\* canvases left the page keeps drawing on the detached elements.
Commit ==
  /\ canvas' = IF ~CanvasMounted' THEN None
               ELSE IF CanvasMounted THEN canvas ELSE Some(BlankCanvas)
  /\ sessionLoad' =
       IF RestoreDeps' # RestoreDeps
         THEN IF RestoreGuard
                THEN Some([current |-> currentImage', previous |-> originalImage',
                           attached |-> TRUE])
                ELSE None
         ELSE IF sessionLoad # None /\ ~CanvasMounted'
                THEN Some([sessionLoad[1] EXCEPT !.attached = FALSE])
                ELSE sessionLoad
  /\ UNCHANGED << imageObjects, isPainting, lastPoint, brushOpacity, objectURLs,
                  pointer >>

\* the File a step creates holds an image of S
Stores(S) ==
  \E img \in S : images' = IF nextId' = nextId THEN images ELSE Append(images, img)

\* loadImages.then of the restore session effect
SessionLoaded ==
  /\ sessionLoad # None
  /\ LET load == sessionLoad[1]
         natural == images[load.current] IN
     /\ imageObjects' = Some([current |-> load.current, previous |-> load.previous])
     /\ canvas' = IF load.attached /\ canvas # None
                    THEN Some([w |-> natural.w, h |-> natural.h,
                               mask |-> [p \in Pixels |-> 0],
                               shown |-> natural.px])
                    ELSE canvas
  /\ sessionLoad' = None
  /\ UNCHANGED << progVars, pending, nextId, undoRedo, images, isPainting,
                  lastPoint, brushOpacity, cropDraw,
                  objectURLs, pointer >>

HandleCanvasMouseDown(pos) ==
  /\ IF canvas = None \/ pos \notin Pixels
       THEN UNCHANGED << isPainting, lastPoint, canvas >>
       ELSE /\ isPainting' = TRUE
            /\ lastPoint' = Some(pos)
            /\ canvas' = Some(DrawOnMask(canvas[1], pos, pos))
  /\ pointer' = pos
  /\ UNCHANGED << progVars, pending, nextId, undoRedo, images, imageObjects,
                  sessionLoad, brushOpacity, cropDraw,
                  objectURLs >>

\* variant: the last point is kept while the pointer is beside the canvas
HandleCanvasMouseMoveKeepsLastPoint(pos) ==
  /\ IF ~isPainting
       THEN UNCHANGED << lastPoint, canvas >>
       ELSE IF canvas = None \/ pos \notin Pixels
         THEN UNCHANGED << lastPoint, canvas >>
         ELSE /\ canvas' = Some(DrawOnMask(canvas[1],
                                  IF lastPoint = None THEN pos ELSE lastPoint[1], pos))
              /\ lastPoint' = Some(pos)
  /\ pointer' = pos
  /\ UNCHANGED << progVars, pending, nextId, undoRedo, images, imageObjects,
                  sessionLoad, isPainting, brushOpacity, cropDraw,
                  objectURLs >>

HandleCanvasMouseMove(pos) ==
  /\ IF ~isPainting
       THEN UNCHANGED << lastPoint, canvas >>
       ELSE IF canvas = None \/ pos \notin Pixels
         THEN lastPoint' = None /\ UNCHANGED canvas
         ELSE /\ canvas' = Some(DrawOnMask(canvas[1],
                                  IF lastPoint = None THEN pos ELSE lastPoint[1], pos))
              /\ lastPoint' = Some(pos)
  /\ pointer' = pos
  /\ UNCHANGED << progVars, pending, nextId, undoRedo, images, imageObjects,
                  sessionLoad, isPainting, brushOpacity, cropDraw,
                  objectURLs >>

\* variant: ending a stroke lets go of the loaded source images
HandleCanvasMouseUpDropsImages ==
  /\ isPainting' = FALSE
  /\ lastPoint' = None
  /\ imageObjects' = None
  /\ UNCHANGED << progVars, pending, nextId, undoRedo, images, canvas,
                  sessionLoad, brushOpacity, cropDraw,
                  objectURLs, pointer >>

HandleCanvasMouseUp ==
  /\ isPainting' = FALSE
  /\ lastPoint' = None
  /\ UNCHANGED << progVars, pending, nextId, undoRedo, images, canvas,
                  imageObjects, sessionLoad, brushOpacity, cropDraw,
                  objectURLs, pointer >>

HandleCanvasMouseLeave ==
  /\ isPainting' = FALSE
  /\ lastPoint' = None
  /\ pointer' = 0
  /\ UNCHANGED << progVars, pending, nextId, undoRedo, images, canvas,
                  imageObjects, sessionLoad, brushOpacity, cropDraw,
                  objectURLs >>

\* RestorePanel opacity slider: onBrushOpacityChange
SetBrushOpacity(opacity) ==
  /\ brushOpacity' = opacity
  /\ UNCHANGED << progVars, pending, nextId, undoRedo, images, canvas,
                  imageObjects, sessionLoad, isPainting, lastPoint, cropDraw,
                  objectURLs, pointer >>

\* the restore container takes the pointer while it is rendered and the
\* spinner overlay does not cover it
PointerOnCanvas == CanvasMounted /\ ~isLoading

\* a button is pressed where the pointer is: a press at a new position is
\* preceded by the move to it
MouseDown(pos) == PointerOnCanvas /\ pos = pointer /\ HandleCanvasMouseDown(pos)

MouseMove(pos) == PointerOnCanvas /\ HandleCanvasMouseMove(pos)

MouseUp == PointerOnCanvas /\ HandleCanvasMouseUp

MouseLeave == PointerOnCanvas /\ HandleCanvasMouseLeave

\* RestorePanel is rendered when activeTab = 'restore' and canUndo
RestorePanelShown == EditorShown /\ activeTab = "restore" /\ canUndo

MoveOpacitySlider(opacity) ==
  RestorePanelShown /\ ~isLoading /\ SetBrushOpacity(opacity)

\* canvas.toDataURL of the display canvas, decoded again
CanvasImage == [w |-> canvas[1].w, h |-> canvas[1].h, px |-> canvas[1].shown]

\* --------------------------------------------------------- the crop tool
\* image.width x image.height of the crop image: max-h-full object-contain
\* keeps the aspect ratio of the natural size
DisplayedSizes(natural) ==
  { [w |-> natural.w \div k, h |-> natural.h \div k] : k \in DisplayDivisors }

\* the drawImage call of handleApplyCrop: source rectangle (sx, sy, sw, sh) of
\* the image, destination (0, 0, dw, dh) on a canvas of dw x dh
ExtractCrop(rect, displayed, natural) ==
  LET scaleX == natural.w \div displayed.w
      scaleY == natural.h \div displayed.h
  IN [sx |-> rect.x * scaleX, sy |-> rect.y * scaleY,
      sw |-> rect.width * scaleX, sh |-> rect.height * scaleY,
      dw |-> rect.width, dh |-> rect.height]

\* what handleApplyCrop does to the pixel surfaces, for a crop image
\* displayed at one of its sizes: drawImage is called before the canvas is
\* serialised, a File is stored only when dataURLtoFile returns one
CropDraws ==
  \E displayed \in DisplayedSizes(images[currentImage]) :
    LET d == ExtractCrop(completedCrop[1], displayed, images[currentImage]) IN
    /\ cropDraw' = Some(d)
    /\ images' = IF nextId' = nextId THEN images
                 ELSE Append(images, [w |-> d.dw, h |-> d.dh,
                                      px |-> images[currentImage].px])

\* ------------------------------------------- the manual adjustment pipeline
\* the colour sample followed is the red channel of a grey pixel
Clamp(x) == IF x < 0 THEN 0 ELSE IF x > 255 THEN 255 ELSE x

\* filter brightness(1 + exposure / 100)
Brightness(c, exposure) == Clamp(RoundDiv(c * (100 + exposure), 100))

\* filter contrast(1 + contrast / 100): slope about mid grey
Contrast(c, contrast) ==
  Clamp(RoundDiv((2 * c - 255) * (100 + contrast) + 255 * 100, 200))

\* filter saturate(1 + saturation / 100): the rows of the saturate matrix
\* sum to 1, so a grey pixel keeps its value
Saturate(c, saturation) == c

\* ctx.filter = brightness contrast saturate; ctx.drawImage(image, 0, 0)
DrawFiltered(p, adj) ==
  IF p.a = 0 THEN NoPaint
  ELSE [c |-> Saturate(Contrast(Brightness(p.c, adj.exposure), adj.contrast),
                       adj.saturation),
        a |-> p.a]

\* blend mode 'overlay' of source sample cs on backdrop sample cb
OverlayBlend(cb, cs) ==
  IF 2 * cb <= 255 THEN RoundDiv(2 * cb * cs, 255)
  ELSE 255 - RoundDiv(2 * (255 - cb) * (255 - cs), 255)

\* blend mode 'color-dodge'
ColorDodgeBlend(cb, cs) ==
  IF cb = 0 THEN 0
  ELSE IF cs = 255 THEN 255
  ELSE Min(255, (cb * 255) \div (255 - cs))

\* fillRect with a fill of sample cs and alpha sa, blended value `blended`
\* where the backdrop d has paint
FillBlended(d, cs, sa, blended) ==
  SourceOver([c |-> RoundDiv((255 - d.a) * cs + d.a * blended, 255), a |-> sa], d)

\* the temperature overlay: orange (red 255) above zero, blue (red 0) below
TemperatureOverlay(p, temperature) ==
  IF temperature > 0
    THEN FillBlended(p, 255, RoundDiv(255 * temperature, 200), OverlayBlend(p.c, 255))
  ELSE IF temperature < 0
    THEN FillBlended(p, 0, RoundDiv(255 * (0 - temperature), 200), OverlayBlend(p.c, 0))
  ELSE p

\* the tint overlay: magenta (red 255) above zero, green (red 0) below
TintOverlay(p, tint) ==
  IF tint > 0
    THEN FillBlended(p, 255, RoundDiv(255 * tint, 400), ColorDodgeBlend(p.c, 255))
  ELSE IF tint < 0
    THEN FillBlended(p, 0, RoundDiv(255 * (0 - tint), 400), ColorDodgeBlend(p.c, 0))
  ELSE p

\* variant: the temperature overlay is drawn at zero as well
ApplyAdjustmentsOverlayAtZero(img, adj) ==
  [w |-> img.w, h |-> img.h,
   px |-> [p \in Pixels |->
             TintOverlay(TemperatureOverlay(DrawFiltered(img.px[p], adj),
                                            IF adj.temperature = 0 THEN 100
                                            ELSE adj.temperature),
                         adj.tint)]]

\* image.onload of handleApplyManualAdjustment: the canvas has the natural
\* size of the image and is serialised after the three drawing steps
ApplyAdjustments(img, adj) ==
  [w |-> img.w, h |-> img.h,
   px |-> [p \in Pixels |->
             TintOverlay(TemperatureOverlay(DrawFiltered(img.px[p], adj),
                                            adj.temperature),
                         adj.tint)]]

\* the manual request that completes in this step, with its output image
ManualDraws ==
  \E req \in BagToSet(pending) :
    /\ req.kind = "manual" /\ pending' = pending (-) SetToBag({req})
    /\ images' = Append(images,
                        ApplyAdjustments(images[req.history[req.historyIndex + 1]],
                                         req.adjustments))

\* -------------------------------------------------- the coordinate mapper
\* JavaScript numbers that are not integers are kept as exact fractions in
\* lowest terms
RECURSIVE GCD(_, _)
GCD(a, b) == IF b = 0 THEN a ELSE GCD(b, a % b)

Rat(n, d) ==
  LET g == GCD(IF n < 0 THEN -n ELSE n, d) IN [n |-> n \div g, d |-> d \div g]

RatMul(a, b) == Rat(a.n * b.n, a.d * b.d)

RatDiv(a, b) == Rat(a.n * b.d, a.d * b.n)

RatAdd(a, b) == Rat(a.n * b.d + b.n * a.d, a.d * b.d)

RatSub(a, b) == Rat(a.n * b.d - b.n * a.d, a.d * b.d)

RatLess(a, b) == a.n * b.d < b.n * a.d

\* Math.round: the nearest integer, halves upwards
MathRound(a) == (2 * a.n + a.d) \div (2 * a.d)

\* variant: the letterbox offsets are left out
MapClickNoOffset(natural, client, px, py) ==
  LET scale == IF natural.w * client.h > natural.h * client.w
                 THEN Rat(natural.w, client.w) ELSE Rat(natural.h, client.h)
  IN [inside |-> TRUE,
      x |-> MathRound(RatMul(Rat(px, 1), scale)),
      y |-> MathRound(RatMul(Rat(py, 1), scale))]

\* handleImageClick: the click (px, py) in the image element of size client
\* showing an image of size natural, object-contain
MapClick(natural, client, px, py) ==
  LET naturalAspect == Rat(natural.w, natural.h)
      clientAspect == Rat(client.w, client.h)
      wide == RatLess(clientAspect, naturalAspect)
      renderedWidth ==
        IF wide THEN Rat(client.w, 1) ELSE RatMul(Rat(client.h, 1), naturalAspect)
      renderedHeight ==
        IF wide THEN RatDiv(Rat(client.w, 1), naturalAspect) ELSE Rat(client.h, 1)
      offsetX ==
        IF wide THEN Rat(0, 1)
        ELSE RatDiv(RatSub(Rat(client.w, 1), renderedWidth), Rat(2, 1))
      offsetY ==
        IF wide THEN RatDiv(RatSub(Rat(client.h, 1), renderedHeight), Rat(2, 1))
        ELSE Rat(0, 1)
      x == Rat(px, 1)
      y == Rat(py, 1)
      scale == RatDiv(Rat(natural.w, 1), renderedWidth)
  IN IF \/ RatLess(x, offsetX) \/ RatLess(RatAdd(offsetX, renderedWidth), x)
        \/ RatLess(y, offsetY) \/ RatLess(RatAdd(offsetY, renderedHeight), y)
       THEN [inside |-> FALSE, x |-> 0, y |-> 0]
       ELSE [inside |-> TRUE,
             x |-> MathRound(RatMul(RatSub(x, offsetX), scale)),
             y |-> MathRound(RatMul(RatSub(y, offsetY), scale))]

\* a click on the current image at (px, py) of its element; the element
\* fills the container, so the marker is placed at the same point
ClickImageAt(client, px, py) ==
  /\ currentImage # NoFile
  /\ px <= client.w /\ py <= client.h
  /\ LET m == MapClick(images[currentImage], client, px, py) IN
     ClickImage(m.inside, [x |-> px, y |-> py], [x |-> m.x, y |-> m.y])

\* ---------------------------------------------------------- specifications
\* Spec: the page as a user can drive it.  Spec and SpecApi follow the
\* controller's slots only; the pixel surfaces are followed by the
\* specifications of the tools further down.
Next ==
  \/ SelectFile /\ UNCHANGED toolVars
  \/ ClickUndo /\ UNCHANGED toolVars
  \/ ClickRedo /\ UNCHANGED toolVars
  \/ ClickReset /\ UNCHANGED toolVars
  \/ ClickUploadNew /\ UNCHANGED toolVars
  \/ \E tab \in Tabs : ClickTab(tab) /\ UNCHANGED toolVars
  \/ SubmitGenerate /\ UNCHANGED toolVars
  \/ \E p \in Prompts : TypePrompt(p) /\ UNCHANGED toolVars
  \/ \E inside \in BOOLEAN, spot \in Hotspots : ClickImage(inside, Marker, spot) /\ UNCHANGED toolVars
  \/ \E rect \in CropRects : DragCrop(rect) /\ UNCHANGED toolVars
  \/ ClickApplyCrop /\ UNCHANGED toolVars
  \/ \E key \in SliderKeys, value \in SliderValues : MoveSlider(key, value) /\ UNCHANGED toolVars
  \/ ClickApplyManual /\ UNCHANGED toolVars
  \/ ClickApplyFilter /\ UNCHANGED toolVars
  \/ ClickApplyAdjustment /\ UNCHANGED toolVars
  \/ ClickApplyRestore /\ UNCHANGED toolVars
  \/ DismissError /\ UNCHANGED toolVars
  \/ RequestSettled /\ UNCHANGED toolVars
  \/ ManualImageLoaded /\ UNCHANGED toolVars

Spec == Init /\ [][Next]_vars

\* SpecApi: the controller's handlers called directly, whatever the page shows
NextApi ==
  \/ HandleImageUpload /\ UNCHANGED toolVars
  \/ HandleUploadNew /\ UNCHANGED toolVars
  \/ HandleUndo /\ UNCHANGED toolVars
  \/ HandleRedo /\ UNCHANGED toolVars
  \/ HandleReset /\ UNCHANGED toolVars
  \/ HandleApplyFilter /\ UNCHANGED toolVars
  \/ HandleApplyAdjustment /\ UNCHANGED toolVars
  \/ HandleApplyManualAdjustment /\ UNCHANGED toolVars
  \/ HandleApplyRestore /\ UNCHANGED toolVars
  \/ DismissError /\ UNCHANGED toolVars
  \/ RequestSettled /\ UNCHANGED toolVars
  \/ ManualImageLoaded /\ UNCHANGED toolVars

SpecApi == Init /\ [][NextApi]_vars

\* SpecProps: the localized edit with its prop images
NextProps ==
  \/ SelectFile /\ UNCHANGED toolVars
  \/ ClickUploadNew /\ UNCHANGED toolVars
  \/ \E inside \in BOOLEAN, spot \in Hotspots : ClickImage(inside, Marker, spot) /\ UNCHANGED toolVars
  \/ \E p \in Prompts : TypePrompt(p) /\ UNCHANGED toolVars
  \/ \E n \in 1 .. MaxProps : AddPropImages(n) /\ UNCHANGED toolVars
  \/ ClickRemoveProp /\ UNCHANGED toolVars
  \/ SubmitGenerate /\ UNCHANGED toolVars
  \/ RequestSettled /\ UNCHANGED toolVars
  \/ DismissError /\ UNCHANGED toolVars

SpecProps == Init /\ [][NextProps]_vars

\* SpecRestore: the restore session with the history operations around it
RestoreTabs == {"filters", "restore"}

NextRestore ==
  \/ SelectFile /\ Stores(UploadImages) /\ Commit /\ UNCHANGED cropDraw
  \/ ClickUploadNew /\ UNCHANGED images /\ Commit /\ UNCHANGED cropDraw
  \/ \E tab \in RestoreTabs : ClickTab(tab) /\ UNCHANGED images /\ Commit /\ UNCHANGED cropDraw
  \/ ClickUndo /\ UNCHANGED images /\ Commit /\ UNCHANGED cropDraw
  \/ ClickRedo /\ UNCHANGED images /\ Commit /\ UNCHANGED cropDraw
  \/ ClickReset /\ UNCHANGED images /\ Commit /\ UNCHANGED cropDraw
  \/ ClickApplyFilter /\ UNCHANGED images /\ Commit /\ UNCHANGED cropDraw
  \/ RequestSettled /\ Stores(ResultImages) /\ Commit /\ UNCHANGED cropDraw
  \/ DismissError /\ UNCHANGED images /\ Commit /\ UNCHANGED cropDraw
  \/ ClickApplyRestore /\ Stores({CanvasImage}) /\ Commit /\ UNCHANGED cropDraw
  \/ SessionLoaded
  \/ \E pos \in Positions : MouseDown(pos)
  \/ \E pos \in Positions : MouseMove(pos)
  \/ MouseUp
  \/ MouseLeave

SpecRestore == Init /\ [][NextRestore]_vars

\* SpecPaint: strokes at several brush opacities; the composite is looked
\* at on the canvases and is not written back to the history
NextPaint ==
  \/ SelectFile /\ Stores(UploadImages) /\ Commit /\ UNCHANGED cropDraw
  \/ \E tab \in RestoreTabs : ClickTab(tab) /\ UNCHANGED images /\ Commit /\ UNCHANGED cropDraw
  \/ ClickApplyFilter /\ UNCHANGED images /\ Commit /\ UNCHANGED cropDraw
  \/ RequestSettled /\ Stores(ResultImages) /\ Commit /\ UNCHANGED cropDraw
  \/ DismissError /\ UNCHANGED images /\ Commit /\ UNCHANGED cropDraw
  \/ SessionLoaded
  \/ \E pos \in Positions : MouseDown(pos)
  \/ \E pos \in Positions : MouseMove(pos)
  \/ MouseUp
  \/ MouseLeave
  \/ \E opacity \in BrushOpacities : MoveOpacitySlider(opacity)

SpecPaint == Init /\ [][NextPaint]_vars

\* SpecCrop: the crop tool
CropTabs == {"retouch", "crop"}

NextCrop ==
  \/ SelectFile /\ Stores(CropUploadImages) /\ Commit /\ UNCHANGED cropDraw
  \/ ClickUploadNew /\ UNCHANGED images /\ Commit /\ UNCHANGED cropDraw
  \/ \E tab \in CropTabs : ClickTab(tab) /\ UNCHANGED images /\ Commit /\ UNCHANGED cropDraw
  \/ \E rect \in CropDrags : DragCrop(rect) /\ UNCHANGED images /\ Commit /\ UNCHANGED cropDraw
  \/ ClickApplyCrop /\ CropDraws /\ Commit
  \/ ClickUndo /\ UNCHANGED images /\ Commit /\ UNCHANGED cropDraw
  \/ ClickRedo /\ UNCHANGED images /\ Commit /\ UNCHANGED cropDraw

SpecCrop == Init /\ [][NextCrop]_vars

\* SpecManual: the manual adjustment pipeline applied to any vector of
\* ManualKeys x ManualValues, the handlers called directly
ManualKeys == {"temperature", "exposure"}
ManualValues == {0, 50}

NextManual ==
  \/ SelectFile /\ Stores(UploadImages) /\ Commit /\ UNCHANGED cropDraw
  \/ \E key \in ManualKeys, value \in ManualValues :
       HandleSliderChange(key, value) /\ UNCHANGED images /\ Commit /\ UNCHANGED cropDraw
  \/ HandleApplyManualAdjustment /\ UNCHANGED images /\ Commit /\ UNCHANGED cropDraw
  \/ ManualImageLoaded /\ ManualDraws /\ Commit /\ UNCHANGED cropDraw

SpecManual == Init /\ [][NextManual]_vars

\* SpecSliders: the manual adjustment panel, sliders that take input and
\* sliders that are disabled
ManualTabs == {"retouch", "manual"}

\* the sliders tried: two that take input and two that are disabled
PanelKeys == {"exposure", "saturation", "highlights", "vibrance"}

NextSliders ==
  \/ SelectFile /\ UNCHANGED toolVars
  \/ \E tab \in ManualTabs : ClickTab(tab) /\ UNCHANGED toolVars
  \/ \E key \in PanelKeys, value \in SliderValues :
       MoveSlider(key, value) /\ UNCHANGED toolVars
  \/ \E key \in PanelKeys : ResetSlider(key) /\ UNCHANGED toolVars
  \/ ResetAllSliders /\ UNCHANGED toolVars
  \/ ClickApplyManual /\ UNCHANGED toolVars
  \/ ManualImageLoaded /\ UNCHANGED toolVars
  \/ ClickUndo /\ UNCHANGED toolVars

SpecSliders == Init /\ [][NextSliders]_vars

\* SpecUrls: the object URLs made by handlers (those made by effects are
\* revoked by the effect's cleanup)
NextUrls ==
  \/ SelectFile /\ UNCHANGED toolVars
  \/ \E tab \in ManualTabs : ClickTab(tab) /\ UNCHANGED toolVars
  \/ \E key \in PanelKeys, value \in SliderValues :
       MoveSlider(key, value) /\ UNCHANGED toolVars
  \/ ClickApplyManual /\ ManualCreatesObjectURL /\ UNCHANGED surfaceVars
  \/ ManualImageLoaded /\ UNCHANGED toolVars
  \/ ClickDownload /\ UNCHANGED surfaceVars

SpecUrls == Init /\ [][NextUrls]_vars

\* SpecRequests: the three kinds of collaborator request, with the
\* collaborator answering every request in the end
RequestTabs == {"retouch", "adjust", "filters"}

NextRequests ==
  \/ SelectFile /\ UNCHANGED toolVars
  \/ ClickUploadNew /\ UNCHANGED toolVars
  \/ ClickUndo /\ UNCHANGED toolVars
  \/ \E tab \in RequestTabs : ClickTab(tab) /\ UNCHANGED toolVars
  \/ \E inside \in BOOLEAN, spot \in Hotspots : ClickImage(inside, Marker, spot) /\ UNCHANGED toolVars
  \/ \E p \in Prompts : TypePrompt(p) /\ UNCHANGED toolVars
  \/ SubmitGenerate /\ UNCHANGED toolVars
  \/ ClickApplyFilter /\ UNCHANGED toolVars
  \/ ClickApplyAdjustment /\ UNCHANGED toolVars
  \/ DismissError /\ UNCHANGED toolVars
  \/ RequestSettled /\ UNCHANGED toolVars

SpecRequests ==
  Init /\ [][NextRequests]_vars /\ WF_vars(RequestSettled /\ UNCHANGED toolVars)

\* SpecHotspot: a hotspot placed by a click, the snapshot changed by a crop
\* or by undo and redo, and the localized edit dispatched
HotspotBox == [w |-> 400, h |-> 400]
HotspotPointerXs == {200}
HotspotPointerYs == {150, 300}
HotspotCrops == { [x |-> 10, y |-> 10, width |-> 100, height |-> 50] }

NextHotspot ==
  \/ SelectFile /\ Stores(UploadImages) /\ Commit /\ UNCHANGED cropDraw
  \/ \E px \in HotspotPointerXs, py \in HotspotPointerYs :
       ClickImageAt(HotspotBox, px, py) /\ UNCHANGED images /\ Commit /\ UNCHANGED cropDraw
  \/ \E p \in Prompts : TypePrompt(p) /\ UNCHANGED images /\ Commit /\ UNCHANGED cropDraw
  \/ \E tab \in CropTabs : ClickTab(tab) /\ UNCHANGED images /\ Commit /\ UNCHANGED cropDraw
  \/ \E rect \in HotspotCrops : DragCrop(rect) /\ UNCHANGED images /\ Commit /\ UNCHANGED cropDraw
  \/ ClickApplyCrop /\ CropDraws /\ Commit
  \/ ClickUndo /\ UNCHANGED images /\ Commit /\ UNCHANGED cropDraw
  \/ ClickRedo /\ UNCHANGED images /\ Commit /\ UNCHANGED cropDraw
  \/ SubmitGenerate /\ UNCHANGED images /\ Commit /\ UNCHANGED cropDraw
  \/ RequestSettled /\ Stores(ResultImages) /\ Commit /\ UNCHANGED cropDraw

SpecHotspot == Init /\ [][NextHotspot]_vars

\* SpecMapper: clicks on the image in retouch mode
NextMapper ==
  \/ SelectFile /\ Stores(UploadImages) /\ Commit /\ UNCHANGED cropDraw
  \/ ClickUploadNew /\ UNCHANGED images /\ Commit /\ UNCHANGED cropDraw
  \/ \E client \in ClientBoxes, px \in PointerXs, py \in PointerYs :
       ClickImageAt(client, px, py) /\ UNCHANGED images /\ Commit /\ UNCHANGED cropDraw

SpecMapper == Init /\ [][NextMapper]_vars

\* ------------------------------------------------------------------ claims
\* a step in which addImageToHistory ran: a File was created and it was not
\* the upload of a base image
IsAppend == nextId' = nextId + 1 /\ ~HandleImageUpload

\* a step in which a collaborator request ended without producing a File
IsRequestFailure ==
  /\ nextId' = nextId
  /\ \E req \in BagToSet(pending) :
       req.kind \in RequestKinds /\ pending' = pending (-) SetToBag({req})

\* C1: in every reachable state the cursor is -1 when the history is empty
\* and lies in 0 .. length-1 when it is not.
C1_CursorInRange ==
  IF Len(history) = 0
    THEN historyIndex = -1
    ELSE 0 <= historyIndex /\ historyIndex <= Len(history) - 1

\* a request started at another cursor is still in flight after navigation
C1_Witness ==
  /\ Len(history) >= 2 /\ historyIndex = 0
  /\ \E req \in BagToSet(pending) : req.historyIndex # historyIndex

\* C2: every append turns history h with cursor c into h[0..c] followed by
\* the new snapshot, with the cursor on the new last index.
C2_AppendTruncatesAtCursor ==
  [][IsAppend =>
       /\ history' = Append(SubSeq(history, 1, historyIndex + 1), nextId)
       /\ historyIndex' = Len(history') - 1]_vars

\* C3: with at least two snapshots, undo followed by redo leaves the cursor
\* where it was, at any cursor position.
C3_UndoRedoIdentity ==
  (Len(undoRedo) = 2 /\ Len(history) >= 2) => historyIndex = undoRedo[1]

\* C3 as amended: the same for every cursor position at which undo is available.
C3_UndoRedoIdentityWhenUndoAvailable ==
  (Len(undoRedo) = 2 /\ Len(history) >= 2 /\ undoRedo[1] > 0)
    => historyIndex = undoRedo[1]

C3_Witness ==
  Len(undoRedo) = 2 /\ Len(history) >= 3 /\ undoRedo[1] = 1 /\ historyIndex = 1

\* C4: undo moves the cursor down by exactly one when it is above 0, redo
\* moves it up by exactly one when it is below length-1, otherwise the call
\* changes nothing; the snapshot sequence is never changed by either.
C4_UndoRedoStep ==
  [][/\ HandleUndo =>
          /\ history' = history
          /\ IF historyIndex > 0
               THEN historyIndex' = historyIndex - 1
               ELSE UNCHANGED progVars
     /\ HandleRedo =>
          /\ history' = history
          /\ IF historyIndex < Len(history) - 1
               THEN historyIndex' = historyIndex + 1
               ELSE UNCHANGED progVars]_vars

\* undo was called at cursor 0 with snapshots to redo, and nothing moved
C4_Witness == undoRedo = << 0 >> /\ historyIndex = 0 /\ Len(history) >= 2

\* C5: right after an append the current snapshot is the appended one and
\* redo is unavailable; redo only becomes available by an undo or a reset.
C5_AppendIsCurrentNoRedo ==
  [][/\ IsAppend => (currentImage' = nextId /\ ~canRedo')
     /\ (~canRedo /\ canRedo') => (HandleUndo \/ HandleReset)]_vars

\* an append that followed an undo: the newest file is current and last
C5_Witness ==
  /\ Len(history) = 2 /\ historyIndex = 1
  /\ history[2] = nextId - 1 /\ history[2] > history[1] + 1

\* C6: reset on a non-empty history puts the cursor on 0 and keeps the
\* sequence, so the later snapshots stay reachable by redo; on an empty
\* history it changes nothing.
C6_ResetKeepsSequence ==
  [][HandleReset =>
       /\ history' = history
       /\ IF Len(history) > 0
            THEN /\ historyIndex' = 0
                 /\ Len(history) > 1 => canRedo'
                 /\ UNCHANGED << prompt, isLoading, error, editHotspot,
                                 displayHotspot, activeTab, crop, completedCrop,
                                 propImages, adjustments >>
            ELSE UNCHANGED progVars]_vars

C6_Witness == Len(history) = 3 /\ historyIndex = 0 /\ undoRedo = None

\* C7: between two loads of a base image (or Upload New), no step removes
\* or replaces the snapshot at index 0.
C7_OriginalStable ==
  [][(Len(history) > 0 /\ ~HandleImageUpload /\ ~HandleUploadNew) =>
       (Len(history') > 0 /\ history'[1] = history[1])]_vars

\* C8: loading a base image leaves the history as exactly [file] with
\* cursor 0, the tool mode on retouch and no crop rectangle.
C8_UploadReinitialises ==
  [][HandleImageUpload =>
       /\ history' = << nextId >>
       /\ Len(history') = 1 /\ historyIndex' = 0
       /\ activeTab' = "retouch"
       /\ crop' = None /\ completedCrop' = None]_vars

\* a second base image was just loaded
C8_Witness ==
  /\ nextId >= 3 /\ history = << nextId - 1 >> /\ historyIndex = 0
  /\ activeTab = "retouch" /\ completedCrop = None

\* C9: at most one collaborator request is outstanding at any time.
C9_AtMostOneOutstanding == Outstanding <= 1

\* C10: when a collaborator request fails, history and cursor are what they
\* were, the error slot holds the message, and prompt and hotspot are kept.
C10_FailureKeepsHistoryAndInputs ==
  [][IsRequestFailure =>
       /\ UNCHANGED << history, historyIndex, prompt, editHotspot, displayHotspot >>
       /\ error' \in {"service unavailable", "An unknown error occurred.",
                      "Invalid data URL"}
       /\ ~isLoading']_vars

\* a localized edit has failed and its inputs are still there
C10_Witness ==
  /\ error \in {"service unavailable", "An unknown error occurred.", "Invalid data URL"}
  /\ BagCardinality(pending) = 0 /\ ~isLoading
  /\ Trim(prompt) # "" /\ editHotspot # None /\ currentImage # NoFile

\* a step in which a localized-edit request resolved, either way
IsGenerateSettled ==
  \E req \in BagToSet(pending) :
    req.kind = "generate" /\ pending' = pending (-) SetToBag({req})

\* C11: the set of prop images is empty after every localized-edit request
\* resolves, whether it succeeded or failed, and after a base image is loaded.
C11_PropsClearedWhenSettled ==
  [][(IsGenerateSettled \/ HandleImageUpload) => propImages' = 0]_vars

\* a step in which a localized edit produced its snapshot
IsGenerateSuccess == IsGenerateSettled /\ nextId' = nextId + 1

\* C12: loading a base image and the completion of a localized edit both
\* leave no pending hotspot and no display marker.
C12_HotspotCleared ==
  [][(HandleImageUpload \/ IsGenerateSuccess) =>
       (editHotspot' = None /\ displayHotspot' = None)]_vars

\* a localized edit has completed: its prompt is still typed, its hotspot gone
C12_Witness ==
  /\ Len(history) >= 2 /\ historyIndex = Len(history) - 1
  /\ Trim(prompt) # "" /\ editHotspot = None /\ displayHotspot = None
  /\ activeTab = "retouch" /\ ~isLoading /\ error = NoError
  /\ BagCardinality(pending) = 0

\* the restore tab can be selected
RestoreAvailable == ENABLED (ClickTab("restore") /\ UNCHANGED toolVars)

\* a restore session is loading or its canvases are on the page
RestoreRunning == CanvasMounted \/ sessionLoad # None

\* C13: while History holds no edit beyond the original snapshot, restore
\* mode is not entered and no restore session runs; once History holds an
\* edit, restore mode is available.
C13_RestoreNeedsEdit ==
  /\ Len(history) <= 1 => ~RestoreRunning
  /\ (EditorShown /\ Len(history) >= 2) => RestoreAvailable

\* C13 as amended: the same without an edit in History; restore mode is
\* available exactly when the cursor is past the original snapshot.
C13_RestoreNeedsCursorPastOriginal ==
  /\ Len(history) <= 1 => ~RestoreRunning
  /\ EditorShown => (RestoreAvailable <=> canUndo)

\* an edit exists, the cursor is back on the original, the editor is shown
C13_Witness ==
  /\ EditorShown /\ Len(history) >= 2 /\ historyIndex = 0
  /\ activeTab = "filters" /\ ~RestoreAvailable

\* a step in which handleApplyCrop produced its snapshot
IsCrop == HandleApplyCrop /\ nextId' = nextId + 1

\* C14: the crop samples the natural-pixel rectangle obtained by scaling the
\* dragged rectangle with natural/displayed size, and its output has the
\* dimensions of that natural-pixel rectangle.
C14_CropOutputIsNaturalRect ==
  [][IsCrop =>
       LET rect == completedCrop[1]
           natural == images[currentImage]
           d == cropDraw'[1]
           out == images'[nextId]
       IN \E displayed \in DisplayedSizes(natural) :
            /\ d.sx * displayed.w = rect.x * natural.w
            /\ d.sy * displayed.h = rect.y * natural.h
            /\ d.sw * displayed.w = rect.width * natural.w
            /\ d.sh * displayed.h = rect.height * natural.h
            /\ out.w = d.sw /\ out.h = d.sh]_vars

\* no completed crop rectangle, or one without width or without height
CropDegenerate ==
  \/ completedCrop = None
  \/ completedCrop[1].width <= 0
  \/ completedCrop[1].height <= 0

\* the crop panel's Apply control is rendered and enabled
ApplyCropOffered == EditorShown /\ activeTab = "crop" /\ CropPanelEnabled

\* C15: while the completed crop rectangle is missing or has width <= 0 or
\* height <= 0, the page offers no enabled crop invocation and an invocation
\* of the handler appends nothing to History.
C15_NoCropWhenDegenerate ==
  [][CropDegenerate =>
       /\ ~ApplyCropOffered
       /\ HandleApplyCrop => UNCHANGED << history, historyIndex >>]_vars

\* contain-fit of natural into client: the rendered size and its offsets,
\* as fractions
ContainFit(natural, client) ==
  LET byWidth == natural.h * client.w <= natural.w * client.h
      rw == IF byWidth THEN Rat(client.w, 1)
            ELSE Rat(natural.w * client.h, natural.h)
      rh == IF byWidth THEN Rat(natural.h * client.w, natural.w)
            ELSE Rat(client.h, 1)
  IN [w |-> rw, h |-> rh,
      ox |-> RatDiv(RatSub(Rat(client.w, 1), rw), Rat(2, 1)),
      oy |-> RatDiv(RatSub(Rat(client.h, 1), rh), Rat(2, 1))]

\* the hotspot the mapper is to produce for pointer (px, py), None outside
MappedHotspot(natural, client, px, py) ==
  LET r == ContainFit(natural, client)
      x == Rat(px, 1)
      y == Rat(py, 1)
  IN IF \/ RatLess(x, r.ox) \/ RatLess(RatAdd(r.ox, r.w), x)
        \/ RatLess(y, r.oy) \/ RatLess(RatAdd(r.oy, r.h), y)
       THEN None
       ELSE Some([x |-> MathRound(RatDiv(RatMul(RatSub(x, r.ox), Rat(natural.w, 1)), r.w)),
                  y |-> MathRound(RatDiv(RatMul(RatSub(y, r.oy), Rat(natural.h, 1)), r.h))])

\* C16: a click outside the contain-fitted image produces no hotspot, a click
\* inside maps to (round((px-offsetX)*W/renderedWidth),
\* round((py-offsetY)*H/renderedHeight)); for (1000,500) in (400,400) the
\* image is rendered 400x200 at vertical offset 100, pointer (200,100) maps
\* to (500,0) and pointer (0,0) is outside.
C16_ClickMapsToNaturalPixel ==
  [][\A client \in ClientBoxes, px \in PointerXs, py \in PointerYs :
       ClickImageAt(client, px, py) =>
         /\ editHotspot' = MappedHotspot(images[currentImage], client, px, py)
         /\ (images[currentImage].w = 1000 /\ images[currentImage].h = 500
               /\ client = [w |-> 400, h |-> 400]) =>
              /\ ContainFit(images[currentImage], client)
                    = [w |-> Rat(400, 1), h |-> Rat(200, 1),
                       ox |-> Rat(0, 1), oy |-> Rat(100, 1)]
              /\ (px = 200 /\ py = 100) => editHotspot' = Some([x |-> 500, y |-> 0])
              /\ (px = 0 /\ py = 0) => editHotspot' = None]_vars

\* the click at (200,100) on the 1000x500 image has placed hotspot (500,0)
C16_Witness ==
  /\ currentImage # NoFile
  /\ editHotspot = Some([x |-> 500, y |-> 0])
  /\ displayHotspot = Some([x |-> 200, y |-> 100])

\* canvas pair cv is as a session start leaves it for snapshot file
SessionFresh(cv, file) ==
  /\ \A p \in Pixels : cv.mask[p] = 0
  /\ cv.w = images[file].w /\ cv.h = images[file].h
  /\ cv.shown = images[file].px

\* C17: when a restore session starts (both source images have loaded) the
\* mask of the restore canvas is fully transparent, mask and composite have
\* the pixel dimensions of the current snapshot, and the composite equals
\* the current image.
C17_SessionStartsFresh ==
  [][(SessionLoaded /\ CanvasMounted') =>
       SessionFresh(canvas'[1], currentImage')]_vars

\* a step inside one restore session: no dependency of the session effect
\* changes and the step is not the session start
SessionContinues == RestoreDeps' = RestoreDeps /\ ~SessionLoaded

\* the mask alpha at pixel p of the restore canvases cv on the page
MaskAlpha(cv, p) == IF cv = None THEN 0 ELSE cv[1].mask[p]

\* C18: within one restore session the mask alpha of every pixel never
\* decreases and never exceeds full opacity, whatever the brush opacity;
\* the mask is emptied only by a session reset.
C18_MaskAlphaMonotone ==
  [][SessionContinues =>
       \A p \in Pixels : /\ MaskAlpha(canvas', p) >= MaskAlpha(canvas, p)
                         /\ MaskAlpha(canvas', p) <= 255]_vars

\* two half-opacity strokes have accumulated on a pixel of a running session
C18_Witness ==
  /\ canvas # None /\ imageObjects # None /\ brushOpacity = 50
  /\ \E p \in Pixels : canvas[1].mask[p] > StrokeAlpha(50) /\ canvas[1].mask[p] < 255

\* a step in which a stroke was drawn and redrawComposite ran on loaded images
IsRecompose ==
  /\ imageObjects # None /\ canvas # None
  /\ \E pos \in Pixels :
       HandleCanvasMouseDown(pos) \/ (isPainting /\ HandleCanvasMouseMove(pos))

\* C19: redrawComposite yields the previous image blended over the current
\* one with the mask alpha as weight: under an all-transparent mask the
\* composite is pixel-identical to the current image, under an all-opaque
\* mask it is pixel-identical to the previous (original) image.
C19_CompositeExtremes ==
  [][IsRecompose =>
       LET cv == canvas'[1]
           current == images[imageObjects[1].current].px
           previous == images[imageObjects[1].previous].px
       IN /\ (\A p \in Pixels : cv.mask[p] = 0) => cv.shown = current
          /\ (\A p \in Pixels : cv.mask[p] = 255) => cv.shown = previous]_vars

\* a pointer event on the restore canvas
IsPaintEvent ==
  \/ \E pos \in Positions : MouseDown(pos) \/ MouseMove(pos)
  \/ MouseUp
  \/ MouseLeave

\* C20: painting (mouse down, move, up, leave on the restore canvas) leaves
\* the history sequence, the cursor and both source images (current and
\* original, as files and as loaded image objects) unchanged.
C20_PaintingKeepsHistoryAndSources ==
  [][IsPaintEvent =>
       /\ UNCHANGED << history, historyIndex, currentImage, originalImage >>
       /\ UNCHANGED << images, imageObjects >>]_vars

\* a finished stroke has changed the composite of a running session while
\* the history still holds the original and one edit
C20_Witness ==
  /\ canvas # None /\ imageObjects # None /\ ~isPainting
  /\ \E p \in Pixels : canvas[1].mask[p] > 0
  /\ canvas[1].shown # images[currentImage].px
  /\ Len(history) = 2 /\ historyIndex = 1

\* C21: Apply Restoration invoked while the source images of the active
\* session have not finished loading (the restore canvas is not yet
\* initialised for the session) appends no snapshot to the history.
C21_NoApplyBeforeSessionReady ==
  [][(HandleApplyRestore /\ sessionLoad # None) => UNCHANGED history]_vars

\* a step in which handleApplyCrop ran and dataURLtoFile rejected the data
\* URL of the crop canvas
IsCropDecodeFailure ==
  /\ completedCrop # None
  /\ DataURLtoFileError(CanvasToDataURL(completedCrop[1].width,
                                        completedCrop[1].height)) # NoError
  /\ ClickApplyCrop /\ cropDraw' # cropDraw

\* C22: every failure of snapshot decoding or of a pixel-pipeline step, in
\* an AI result, a crop, a manual adjustment or a restore, puts a message
\* in the error slot and leaves the history and the cursor unchanged.
C22_FailuresReachErrorSlot ==
  [][(IsRequestFailure \/ IsCropDecodeFailure) =>
       /\ error' # NoError
       /\ UNCHANGED << history, historyIndex >>]_vars

\* C23: the manual adjustment pipeline applied with the all-zero vector
\* produces an image pixel-identical to its source (same size, same
\* pixels), each time it is applied.
C23_ZeroVectorIsIdentity ==
  [][\A req \in BagToSet(pending) :
       ( /\ req.kind = "manual" /\ req.adjustments = defaultAdjustments
         /\ pending' = pending (-) SetToBag({req})
         /\ nextId' = nextId + 1 )
       => images'[nextId] = images[req.history[req.historyIndex + 1]]]_vars

\* the all-zero vector has been applied twice in a row to an upload with a
\* transparent pixel
C23_Witness ==
  /\ Len(history) = 3 /\ historyIndex = 2 /\ BagCardinality(pending) = 0
  /\ images[history[1]].px[2] = NoPaint
  /\ images[history[2]] = images[history[1]]
  /\ images[history[3]] = images[history[1]]

\* C24: the controls of highlights, shadows, whites, blacks, clarity and
\* vibrance are disabled: in every reachable state these six components
\* are zero, in the adjustment vector and in the vector of every manual
\* adjustment under way.
C24_DisabledSlidersStayZero ==
  \A key \in AdjustmentKeys \ EnabledSliders :
    /\ adjustments[key] = 0
    /\ \A req \in BagToSet(pending) : req.adjustments[key] = 0

\* a manual adjustment was committed and enabled sliders were moved again
C24_Witness ==
  /\ Len(history) = 2 /\ historyIndex = 1 /\ activeTab = "manual"
  /\ adjustments["saturation"] = 50 /\ adjustments["exposure"] = 0
  /\ \E req \in BagToSet(pending) :
       req.kind = "manual" /\ req.adjustments["exposure"] = 50

\* C25: every object URL made for an image is revoked once it is
\* superseded: the handles made by handlers that are still live are those
\* of images still loading, however many adjustments and downloads were
\* performed.
C25_ObjectURLsRevoked == objectURLs <= PendingOf({"manual"})

\* the request or manual adjustment req succeeds in this step after the
\* cursor was moved (undo, redo, reset) on the history it was started with
SucceedsAfterNavigation(req) ==
  /\ pending' = pending (-) SetToBag({req}) /\ nextId' = nextId + 1
  /\ req.history = history /\ req.historyIndex # historyIndex

\* C26: when an AI request or a manual adjustment succeeds after the user
\* moved the cursor while it was pending, the new snapshot is appended
\* after the cursor of the completion time and only the snapshots after
\* that cursor are dropped.
C26_AppendAtLiveCursor ==
  [][\A req \in BagToSet(pending) :
       SucceedsAfterNavigation(req) =>
         /\ historyIndex' = historyIndex + 1
         /\ Len(history') = historyIndex + 2
         /\ \A i \in 1 .. historyIndex + 1 : history'[i] = history[i]]_vars

\* C27: once the history is empty (initially, or after Upload New) it stays
\* empty with cursor -1 until a base image is uploaded; in particular the
\* result of a request that was in flight when Upload New was pressed does
\* not enter it.
C27_EmptyUntilUpload ==
  [][(Len(history) = 0 /\ ~HandleImageUpload) =>
       (Len(history') = 0 /\ historyIndex' = -1)]_vars

\* previous over current where the mask has alpha
CompositeOf(current, previous, mask) ==
  [p \in Pixels |-> SourceOver(DestinationIn(previous[p], mask[p]), current[p])]

\* the mask of the session of the current cursor: still empty while the
\* session's images are loading
SessionMask ==
  IF sessionLoad # None THEN [p \in Pixels |-> 0] ELSE canvas[1].mask

\* C28: the snapshot appended by Apply Restoration right after an undo and
\* a redo made in restore mode is the composite of the snapshot at the
\* current cursor and the original snapshot under the mask of the current
\* session, not a composite left on the canvas from before the undo.
C28_ApplyUsesCurrentSession ==
  [][(/\ HandleApplyRestore /\ CanvasMounted /\ Len(undoRedo) = 2
      /\ \E p \in Pixels : canvas[1].shown[p] # NoPaint) =>
       images'[nextId].px =
         CompositeOf(images[currentImage].px, images[originalImage].px,
                     SessionMask)]_vars

\* C29: the busy flag is true in every state in which a collaborator
\* request is outstanding and false in every state in which none is.
C29_BusyIffOutstanding == isLoading <=> Outstanding > 0

\* a request is outstanding on the start screen, after Upload New
C29_Witness ==
  /\ isLoading /\ Outstanding = 1 /\ currentImage = NoFile /\ nextId = 3

\* a step in which a collaborator request ended
IsRequestSettled ==
  \E req \in BagToSet(pending) :
    req.kind \in RequestKinds /\ pending' = pending (-) SetToBag({req})

\* C30: with a collaborator that answers in the end, every request that was
\* started ends, and it ends in exactly one of two ways: a snapshot is
\* appended and no error is set, or the error slot is set and the history
\* is kept; and the busy flag is false again in the end.
C30_RequestsComplete ==
  /\ [][IsRequestSettled =>
          \/ (IsAppend /\ error' = NoError)
          \/ (error' # NoError /\ UNCHANGED << history, historyIndex >>)]_vars
  /\ (Outstanding > 0) ~> (Outstanding = 0 /\ ~isLoading)

\* one request has appended its snapshot and a later one has failed
C30_Witness ==
  /\ Len(history) = 2 /\ historyIndex = 1 /\ history[2] = 2
  /\ error # NoError /\ Outstanding = 0 /\ ~isLoading

\* a step that changes the history or moves its cursor
IsHistoryChange ==
  history' # history \/ historyIndex' # historyIndex

\* C31: after any change of the history (append, undo, redo, reset to the
\* original, loading a new base image) the manual adjustment vector is the
\* all-zero default.
C31_AdjustmentsResetOnHistoryChange ==
  [][IsHistoryChange => adjustments' = defaultAdjustments]_vars

\* a step that dispatches a localized edit request
IsGenerateDispatch == PendingOf({"generate"})' > PendingOf({"generate"})

InNaturalBounds(spot, natural) ==
  /\ 0 <= spot.x /\ spot.x < natural.w
  /\ 0 <= spot.y /\ spot.y < natural.h

\* C32: whenever a localized edit request is dispatched, the hotspot sent
\* with it lies inside the natural pixel bounds of the image sent with it,
\* also when the current snapshot changed through crop, undo, redo or reset
\* after the hotspot was placed.
C32_HotspotInsideImage ==
  [][IsGenerateDispatch =>
       /\ editHotspot # None
       /\ InNaturalBounds(editHotspot[1], images[currentImage])]_vars

\* a step that adds paint to the mask
MaskGrows == \E p \in Pixels : MaskAlpha(canvas', p) > MaskAlpha(canvas, p)

\* the mask with one segment from start to end stroked on it
Stroked(cv, start, end) ==
  [p \in Pixels |->
     IF (start <= p /\ p <= end) \/ (end <= p /\ p <= start)
       THEN OverAlpha(StrokeAlpha(brushOpacity), cv.mask[p])
       ELSE cv.mask[p]]

\* C33: a stroke segment is drawn on the mask only while painting is active,
\* that is after a mouse-down inside the canvas and before the next mouse-up
\* or mouse-leave; each segment runs from the previous pointer position in
\* the canvas to the current one, and when the pointer was beside the canvas
\* the next segment starts at the point of re-entry instead of being joined
\* to the last point before the exit.
C33_SegmentsOnlyWhilePainting ==
  /\ [][MaskGrows =>
          \E pos \in Pixels :
            MouseDown(pos) \/ (isPainting /\ MouseMove(pos))]_vars
  /\ [][(~isPainting /\ isPainting') => \E pos \in Pixels : MouseDown(pos)]_vars
  /\ [][(MouseUp \/ MouseLeave) => ~isPainting']_vars
  /\ [][\A pos \in Pixels :
          (isPainting /\ canvas # None /\ MouseMove(pos)) =>
             /\ canvas' # None
             /\ canvas'[1].mask =
                  Stroked(canvas[1], IF pointer \in Pixels THEN pointer ELSE pos, pos)]_vars

\* a half-opacity stroke went from pixel 1 out of the canvas and came back
\* in at pixel 2: each pixel holds one layer of paint
C33_Witness ==
  /\ isPainting /\ pointer = 2 /\ lastPoint = Some(2) /\ brushOpacity = 50
  /\ canvas # None
  /\ canvas[1].mask[1] = StrokeAlpha(50) /\ canvas[1].mask[2] = StrokeAlpha(50)

====
